---- MODULE Spec2Model ----
(***************************************************************************)
(* A model of random-distributions-cli (src/src/main.rs): the construction *)
(* of the distribution object, the seeding of the generator, the sampling  *)
(* loop with its discard filters and accumulator, the output encoder and   *)
(* the buffered writer in front of standard output.                        *)
(*                                                                         *)
(* Numbers.  An f64 is a record [k, v]: k = "fin" with v the value in      *)
(* thousandths (1.5 is v = 1500), or k = "nan", "pinf", "ninf" with v = 0. *)
(* Comparisons and sums follow IEEE-754: every comparison with NaN is      *)
(* false, NaN is absorbing, inf + -inf = NaN.  Rounding of finite sums is  *)
(* not represented.  Stable's alpha, beta and scale are in thousandths     *)
(* too (alpha = 999 is 0.999).                                             *)
(***************************************************************************)
EXTENDS Integers, Sequences, FiniteSets, TLC

VARIABLES
    opts,        \* the parsed command line (Opts), fixed for the run
    pc,          \* "start" | "loop" | "done" (main returned Ok) | "failed" (main returned Err)
    d,           \* the constructed distribution object, [kind |-> "none"] before construction
    r,           \* the generator's state, NoRng before it is created
    c,           \* the accumulator
    counter,     \* the iteration counter
    so,          \* number of values held by the BufWriter, not yet written to stdout
    sink,        \* standard output: "open", or "closed" (every write to it fails)
    hist,        \* history: one record per value written to `so`: [raw, x, c, enc]
    writeFailed, \* history: a write to standard output has failed
    faults,      \* history: the numeric faults (division by zero, ln of a non-positive) so far
    runNo,       \* which run of the program this is (SpecRerun runs it twice)
    prevHist     \* history of the previous run, <<>> in the first

vars == <<opts, pc, d, r, c, counter, so, sink, hist, writeFailed, faults, runNo, prevHist>>

(***************************************************************************)
(* Bounds of the model.                                                    *)
(***************************************************************************)
\* the largest -n the model tries; the model follows no stream beyond MaxN + 1
\* values (only an unlimited one gets there)
MaxN == 3
\* the number of states of the generator
RngMod == 3
\* capacity of the BufWriter, in values (32768 bytes in the program)
BufCap == 2
\* pi/2 in steps of the grid on which Stable's uniform draw U is taken
HalfPiQ == 2

(***************************************************************************)
(* f64                                                                     *)
(***************************************************************************)
Fin(n) == [k |-> "fin", v |-> n]
NaN == [k |-> "nan", v |-> 0]
PosInf == [k |-> "pinf", v |-> 0]
NegInf == [k |-> "ninf", v |-> 0]

\* a < b on f64
FLt(a, b) ==
    /\ a.k # "nan" /\ b.k # "nan"
    /\ \/ a.k = "ninf" /\ b.k # "ninf"
       \/ a.k = "fin" /\ b.k = "pinf"
       \/ a.k = "fin" /\ b.k = "fin" /\ a.v < b.v

\* a > b on f64
FGt(a, b) == FLt(b, a)

\* a + b on f64
FAdd(a, b) ==
    IF a.k = "nan" \/ b.k = "nan" THEN NaN
    ELSE IF a.k = "fin" /\ b.k = "fin" THEN Fin(a.v + b.v)
    ELSE IF a.k = "fin" THEN b
    ELSE IF b.k = "fin" THEN a
    ELSE IF a.k = b.k THEN a
    ELSE NaN

\* e^x, rounded to thousandths, tabulated for the finite arguments the model
\* draws (no other is ever passed); e^x overflows to inf above 709.78 and
\* underflows to 0 below -745.13
ExpFin(n) ==
    IF n >= 710000 THEN PosInf
    ELSE IF n <= -746000 THEN Fin(0)
    ELSE CASE n = -5000 -> Fin(7)
           [] n = -1000 -> Fin(368)
           [] n = -500  -> Fin(607)
           [] n = 0     -> Fin(1000)
           [] n = 500   -> Fin(1649)
           [] n = 1000  -> Fin(2718)
           [] n = 1500  -> Fin(4482)
           [] n = 2000  -> Fin(7389)
           [] n = 3000  -> Fin(20086)

\* x.exp()
FExp(x) ==
    IF x.k = "nan" THEN NaN
    ELSE IF x.k = "pinf" THEN PosInf
    ELSE IF x.k = "ninf" THEN Fin(0)
    ELSE ExpFin(x.v)

(***************************************************************************)
(* The output encoder: `c as <int>` and byteorder's write_<int>.           *)
(***************************************************************************)
IntFormats ==
    {"U8", "S8", "U16BE", "U16LE", "S16BE", "S16LE", "U32BE", "U32LE",
     "S32BE", "S32LE", "U64BE", "U64LE", "S64BE", "S64LE"}
FloatFormats == {"F32BE", "F32LE", "F64BE", "F64LE"}
\* "TEXT" stands for binary_format = None
BinaryFormat == IntFormats \cup FloatFormats \cup {"TEXT"}

Signed(fmt) == fmt \in {"S8", "S16BE", "S16LE", "S32BE", "S32LE", "S64BE", "S64LE"}
BigEndian(fmt) ==
    fmt \in {"U16BE", "S16BE", "U32BE", "S32BE", "U64BE", "S64BE", "F32BE", "F64BE"}
Width(fmt) ==
    IF fmt \in {"U8", "S8"} THEN 1
    ELSE IF fmt \in {"U16BE", "U16LE", "S16BE", "S16LE"} THEN 2
    ELSE IF fmt \in {"U32BE", "U32LE", "S32BE", "S32LE", "F32BE", "F32LE"} THEN 4
    ELSE 8

Reverse(s) == [i \in 1..Len(s) |-> s[Len(s) + 1 - i]]

\* the integer part of a finite f64 given in thousandths: `as` rounds toward zero
Trunc(n) == IF n >= 0 THEN n \div 1000 ELSE -((-n) \div 1000)

\* the low `w` bytes of n in two's complement, least significant first
RECURSIVE IntBytesLE(_, _)
IntBytesLE(n, w) ==
    IF w = 0 THEN <<>> ELSE <<n % 256>> \o IntBytesLE(n \div 256, w - 1)

\* n with its low `w` bytes shifted out (arithmetic shift)
RECURSIVE ShiftOut(_, _)
ShiftOut(n, w) == IF w = 0 THEN n ELSE ShiftOut(n \div 256, w - 1)

\* n is representable in the integer type of `w` bytes
Fits(n, signed, w) ==
    IF signed
    THEN \/ ShiftOut(n, w) = 0 /\ IntBytesLE(n, w)[w] < 128
         \/ ShiftOut(n, w) = -1 /\ IntBytesLE(n, w)[w] >= 128
    ELSE n >= 0 /\ ShiftOut(n, w) = 0

\* the type's MAX and MIN, least significant byte first
MaxBytesLE(signed, w) == [i \in 1..w |-> IF signed /\ i = w THEN 127 ELSE 255]
MinBytesLE(signed, w) == [i \in 1..w |-> IF signed /\ i = w THEN 128 ELSE 0]

\* a cast that wraps modulo 2^(8w) instead of saturating
WrapCastBytesLE(x, signed, w) ==
    IF x.k # "fin" THEN [i \in 1..w |-> 0] ELSE IntBytesLE(Trunc(x.v), w)

\* `x as <int>`: NaN gives 0, a value out of range the nearest bound, any
\* other value its integer part
CastBytesLE(x, signed, w) ==
    IF x.k = "nan" THEN [i \in 1..w |-> 0]
    ELSE IF x.k = "pinf" THEN MaxBytesLE(signed, w)
    ELSE IF x.k = "ninf" THEN MinBytesLE(signed, w)
    ELSE IF Fits(Trunc(x.v), signed, w) THEN IntBytesLE(Trunc(x.v), w)
    ELSE IF x.v > 0 THEN MaxBytesLE(signed, w)
    ELSE MinBytesLE(signed, w)

\* what one iteration hands to `so` for the accumulator x.  Text and the
\* float formats carry the value itself (the decimal rendering at
\* opts.precision and the rounding to f32 are not represented); the integer
\* formats carry the bytes written.
Encode(fmt, x) ==
    IF fmt \in IntFormats
    THEN [fmt |-> fmt, val |-> Fin(0),
          bytes |-> IF BigEndian(fmt)
                    THEN Reverse(CastBytesLE(x, Signed(fmt), Width(fmt)))
                    ELSE CastBytesLE(x, Signed(fmt), Width(fmt))]
    ELSE [fmt |-> fmt, val |-> x, bytes |-> <<>>]

(***************************************************************************)
(* Options                                                                 *)
(***************************************************************************)
None == [some |-> FALSE, v |-> 0]
Some(n) == [some |-> TRUE, v |-> n]
NoBound == [some |-> FALSE, v |-> Fin(0)]
Bound(x) == [some |-> TRUE, v |-> x]

(***************************************************************************)
(* Construction of the distribution object (main, the match on             *)
(* opts.distribution).  The parameters of Uniform, Cauchy, Triangular,     *)
(* StudentsT and Stable are finite, in thousandths; Normal's mean is an    *)
(* f64, so that it can be infinite.                                        *)
(***************************************************************************)
Uniform(right_inclusive, min, max) ==
    [kind |-> "uniform", right_inclusive |-> right_inclusive, min |-> min, max |-> max]
Normal(mean, std_dev) == [kind |-> "normal", mean |-> mean, std_dev |-> std_dev]
Cauchy(location, scale) == [kind |-> "cauchy", location |-> location, scale |-> scale]
Triangular(min, mode, max) == [kind |-> "triangular", min |-> min, mode |-> mode, max |-> max]
StudentsT(location, scale, freedom) ==
    [kind |-> "studentt", location |-> location, scale |-> scale, freedom |-> freedom]
Stable(location, scale, alpha, beta) ==
    [kind |-> "stable", location |-> location, scale |-> scale, alpha |-> alpha, beta |-> beta]
Empirical(data_points) == [kind |-> "empirical", data_points |-> data_points]
Categorical(probabilities) == [kind |-> "categorical", probabilities |-> probabilities]

RECURSIVE SumSeq(_)
SumSeq(s) == IF s = <<>> THEN 0 ELSE s[1] + SumSeq(Tail(s))

\* the construction succeeds: main's own tests for Uniform (made whether or
\* not right_inclusive is set) and for Stable's alpha and beta (none of its
\* scale), the library's `new(..)?` for the others
Valid(p) ==
    CASE p.kind = "uniform"     -> ~(p.max <= p.min)
      [] p.kind = "normal"      -> p.mean.k # "nan" /\ p.std_dev > 0
      [] p.kind = "cauchy"      -> p.scale > 0
      [] p.kind = "triangular"  -> p.min <= p.mode /\ p.mode <= p.max /\ p.min # p.max
      [] p.kind = "studentt"    -> p.scale > 0 /\ p.freedom > 0
      [] p.kind = "stable"      -> ~(p.alpha < 0 \/ p.alpha > 2000)
                                   /\ ~(p.beta < -1000 \/ p.beta > 1000)
      [] p.kind = "empirical"   -> TRUE
      [] p.kind = "categorical" -> /\ p.probabilities # <<>>
                                   /\ \A i \in 1..Len(p.probabilities) : p.probabilities[i] >= 0
                                   /\ SumSeq(p.probabilities) > 0

\* Stable's choice of algorithm
AlphaIsOne(alpha) == alpha > 999 /\ alpha < 1001

\* scale.ln() in thousandths, tabulated for the positive scales the model uses
LnFin(n) == CASE n = 1000 -> 0

\* StableAlphaOne::new's location: NaN when scale <= 0 (0 * ln 0, ln of a negative)
AdjustedLocation(location, scale, beta) ==
    IF scale <= 0 THEN NaN
    ELSE Fin(location + ((((((beta * scale) \div 1000) * LnFin(scale)) \div 1000) * 2000) \div 3142))

\* the distribution object
New(p) ==
    IF p.kind # "stable" THEN p
    ELSE IF AlphaIsOne(p.alpha)
    THEN [kind |-> "stable1", location |-> AdjustedLocation(p.location, p.scale, p.beta),
          beta |-> p.beta, scale |-> p.scale]
    ELSE [kind |-> "stable", location |-> p.location, alpha |-> p.alpha, beta |-> p.beta,
          scale |-> p.scale]

\* the numeric faults of the precomputation: StableAlphaNotOne::new divides
\* by alpha four times, StableAlphaOne::new takes scale.ln()
NewFaults(p) ==
    IF p.kind # "stable" THEN {}
    ELSE IF AlphaIsOne(p.alpha)
    THEN (IF p.scale <= 0 THEN {"ln of a non-positive"} ELSE {})
    ELSE (IF p.alpha = 0 THEN {"division by zero"} ELSE {})

(***************************************************************************)
(* The generator and the draws.  SmallRng is a deterministic generator    *)
(* with finitely many states: here a cycle of RngMod states.  A library    *)
(* distribution is represented by a few points of its support, one of      *)
(* which each draw selects from the generator's state.                     *)
(***************************************************************************)
NoRng == -1
RngStates == 0..(RngMod - 1)
RngNext(s) == (s + 1) % RngMod

\* a seeding that ignores the seed given with -S
SeedIgnored(seed, entropy) == entropy

\* SmallRng::seed_from_u64(s) with -S, SmallRng::from_entropy() without
SeedRng(seed, entropy) == IF seed.some THEN seed.v % RngMod ELSE entropy

Pick(points, s) == points[(s % Len(points)) + 1]

RECURSIVE Positive(_, _)
Positive(probabilities, i) ==
    IF i > Len(probabilities) THEN <<>>
    ELSE (IF probabilities[i] > 0 THEN <<Fin((i - 1) * 1000)>> ELSE <<>>)
         \o Positive(probabilities, i + 1)

RECURSIVE FinSeq(_)
FinSeq(s) == IF s = <<>> THEN <<>> ELSE <<Fin(s[1])>> \o FinSeq(Tail(s))

\* points of the support of a library distribution
Support(obj) ==
    CASE obj.kind = "uniform" ->
           <<Fin(obj.min), Fin((obj.min + obj.max) \div 2)>>
           \o (IF obj.right_inclusive THEN <<Fin(obj.max)>> ELSE <<>>)
      [] obj.kind = "normal" ->
           <<FAdd(obj.mean, Fin(-obj.std_dev)), obj.mean, FAdd(obj.mean, Fin(obj.std_dev))>>
      [] obj.kind = "cauchy" ->
           <<Fin(obj.location - obj.scale), Fin(obj.location), Fin(obj.location + obj.scale)>>
      [] obj.kind = "triangular" -> <<Fin(obj.min), Fin(obj.mode), Fin(obj.max)>>
      [] obj.kind = "studentt" ->
           <<Fin(obj.location - obj.scale), Fin(obj.location), Fin(obj.location + obj.scale)>>
      [] obj.kind = "empirical" -> FinSeq(obj.data_points)
      [] obj.kind = "categorical" -> Positive(obj.probabilities, 1)

\* Stable's U, uniform on [-pi/2 + 3 eps, pi/2): the grid points strictly
\* between -HalfPiQ and HalfPiQ
DrawU(s) == (s % (2 * HalfPiQ - 1)) - (HalfPiQ - 1)
\* Stable's W, exponential of rate 1: positive
DrawW(s) == 1 + (s % 2)

\* the numeric faults of one Stable sample with draws u and w
SampleFaults(obj, u, w) ==
    IF obj.kind = "stable"
    THEN \* `/ den1` with den1 = cos(u)^(1/alpha), `/ w`
         IF u = HalfPiQ \/ u = -HalfPiQ \/ (obj.alpha = 0 /\ u # 0) \/ w = 0
         THEN {"division by zero"} ELSE {}
    ELSE IF obj.kind = "stable1"
    THEN \* `/ (FRAC_PI_2 + beta*u)` and the ln of (FRAC_PI_2*w*cos(u)) / (FRAC_PI_2 + beta*u)
         (IF HalfPiQ * 1000 + obj.beta * u = 0 THEN {"division by zero"} ELSE {})
         \cup (IF w <= 0 \/ u >= HalfPiQ \/ u <= -HalfPiQ \/ HalfPiQ * 1000 + obj.beta * u <= 0
               THEN {"ln of a non-positive"} ELSE {})
    ELSE {}

\* the value of one Stable sample.  The CMS formulas are transcendental:
\* the model keeps what decides the claims, that the value is NaN when xi
\* is NaN (alpha = 0: atan(0)/0) or the adjusted location is NaN, and
\* otherwise a finite value around the location.
StableValue(obj, u, w) ==
    IF obj.kind = "stable1"
    THEN FAdd(obj.location, Fin(obj.scale * u))
    ELSE IF obj.alpha = 0 THEN NaN ELSE Fin(obj.location + obj.scale * u)

IsStable(obj) == obj.kind \in {"stable", "stable1"}

\* d.sample(&mut r): the value, the generator's state afterwards, the faults
Sample(obj, s) ==
    IF IsStable(obj)
    THEN [x |-> StableValue(obj, DrawU(s), DrawW(RngNext(s))),
          r |-> RngNext(RngNext(s)),
          faults |-> SampleFaults(obj, DrawU(s), DrawW(RngNext(s)))]
    ELSE [x |-> Pick(Support(obj), s), r |-> RngNext(s), faults |-> {}]

(***************************************************************************)
(* main                                                                    *)
(***************************************************************************)
NoDist == [kind |-> "none"]

\* if opts.exponentiate { x = x.exp(); }
Exponentiated(o, x) == IF o.exponentiate THEN FExp(x) ELSE x

\* a filter that tests the lower bound only
DiscardedBelowOnly(o, x) == o.discard_below.some /\ FLt(x, o.discard_below.v)

\* the two `continue`s
Discarded(o, x) ==
    \/ o.discard_below.some /\ FLt(x, o.discard_below.v)
    \/ o.discard_above.some /\ FGt(x, o.discard_above.v)

\* an accumulator that is never reset
NeverReset(o, acc) == acc

\* an accumulator that is always reset
AlwaysReset(o, acc) == Fin(0)

\* if ! opts.cumulative { c = 0.0; }
AfterEmit(o, acc) == IF ~o.cumulative THEN Fin(0) ELSE acc

\* a loop that never tests the limit
LimitNeverReached(o, n) == FALSE

\* a limit test that lets one value too many through
LimitReachedLate(o, n) == o.num_samples.some /\ n > o.num_samples.v

\* if let Some(limit) = opts.num_samples { if counter >= limit { break; } }
LimitReached(o, n) == o.num_samples.some /\ n >= o.num_samples.v

\* the sample of this iteration, after exponentiation
Drawn == Sample(d, r)
X == Exponentiated(opts, Drawn.x)

\* the BufWriter is dropped when main returns: it tries to write what it
\* holds, and the drop ignores the result
DropSo ==
    IF so > 0 /\ sink = "closed"
    THEN writeFailed' = TRUE /\ so' = so
    ELSE writeFailed' = writeFailed /\ so' = 0

\* the distribution is rejected: anyhow::bail!, or the `?` on the library's new()
ConstructErr ==
    /\ pc = "start"
    /\ ~Valid(opts.distribution)
    /\ pc' = "failed"
    /\ DropSo
    /\ UNCHANGED <<opts, d, r, c, counter, sink, hist, faults, runNo, prevHist>>

\* the distribution object is built, the generator created, c and counter set to 0
Construct ==
    /\ pc = "start"
    /\ Valid(opts.distribution)
    /\ d' = New(opts.distribution)
    /\ faults' = faults \cup NewFaults(opts.distribution)
    /\ \E entropy \in RngStates : r' = SeedRng(opts.seed, entropy)
    /\ c' = Fin(0)
    /\ counter' = 0
    /\ pc' = "loop"
    /\ UNCHANGED <<opts, so, sink, hist, writeFailed, runNo, prevHist>>

\* counter >= limit: break, return Ok(())
Break ==
    /\ pc = "loop"
    /\ LimitReached(opts, counter)
    /\ pc' = "done"
    /\ DropSo
    /\ UNCHANGED <<opts, d, r, c, counter, sink, hist, faults, runNo, prevHist>>

\* an iteration that ends in one of the two `continue`s
Discard ==
    /\ pc = "loop"
    /\ ~LimitReached(opts, counter)
    /\ Discarded(opts, X)
    /\ r' = Drawn.r
    /\ faults' = faults \cup Drawn.faults
    /\ UNCHANGED <<opts, pc, d, c, counter, so, sink, hist, writeFailed, runNo, prevHist>>

\* an iteration that writes the value: it goes to the BufWriter, which
\* first writes out what it holds when the value does not fit
Emit ==
    /\ pc = "loop"
    /\ ~LimitReached(opts, counter)
    /\ counter <= MaxN
    /\ ~Discarded(opts, X)
    /\ ~(so >= BufCap /\ sink = "closed")
    /\ r' = Drawn.r
    /\ faults' = faults \cup Drawn.faults
    /\ hist' = Append(hist, [raw |-> Drawn.x, x |-> X, c |-> FAdd(c, X),
                             enc |-> Encode(opts.binary_format, FAdd(c, X))])
    /\ so' = IF so >= BufCap THEN 1 ELSE so + 1
    /\ c' = AfterEmit(opts, FAdd(c, X))
    /\ counter' = counter + 1
    /\ UNCHANGED <<opts, pc, d, sink, writeFailed, runNo, prevHist>>

\* an iteration whose write fails: the `?` returns the error from main
WriteFail ==
    /\ pc = "loop"
    /\ ~LimitReached(opts, counter)
    /\ counter <= MaxN
    /\ ~Discarded(opts, X)
    /\ so >= BufCap /\ sink = "closed"
    /\ r' = Drawn.r
    /\ faults' = faults \cup Drawn.faults
    /\ c' = FAdd(c, X)
    /\ writeFailed' = TRUE
    /\ pc' = "failed"
    /\ UNCHANGED <<opts, d, counter, so, sink, hist, runNo, prevHist>>

\* the reader of standard output goes away, or the device fills up
CloseSink ==
    /\ pc \in {"start", "loop"}
    /\ sink = "open"
    /\ sink' = "closed"
    /\ UNCHANGED <<opts, pc, d, r, c, counter, so, hist, writeFailed, faults, runNo, prevHist>>

\* the program is run again with the same command line
Rerun ==
    /\ pc \in {"done", "failed"}
    /\ runNo = 1
    /\ runNo' = 2
    /\ prevHist' = hist
    /\ pc' = "start"
    /\ d' = NoDist
    /\ r' = NoRng
    /\ c' = Fin(0)
    /\ counter' = 0
    /\ so' = 0
    /\ sink' = "open"
    /\ hist' = <<>>
    /\ writeFailed' = FALSE
    /\ faults' = {}
    /\ UNCHANGED opts

Step == ConstructErr \/ Construct \/ Break \/ Discard \/ Emit \/ WriteFail

Next == Step \/ CloseSink

(***************************************************************************)
(* The command lines the model runs.                                       *)
(***************************************************************************)
Opts(cumulative, seed, binary_format, num_samples, exponentiate, discard_below, discard_above, distribution) ==
    [cumulative |-> cumulative, seed |-> seed, binary_format |-> binary_format,
     num_samples |-> num_samples, exponentiate |-> exponentiate,
     discard_below |-> discard_below, discard_above |-> discard_above,
     distribution |-> distribution]

Counts == {None} \cup {Some(n) : n \in 0..MaxN}

\* the loop: every combination of the options that steer it
LoopOpts ==
    {Opts(cu, se, bf, n, e, lo, hi, di) :
        cu \in BOOLEAN, se \in {None, Some(1)}, bf \in {"TEXT", "U8"}, n \in Counts,
        e \in BOOLEAN,
        lo \in {NoBound, Bound(Fin(0)), Bound(Fin(5000))},
        hi \in {NoBound, Bound(Fin(500))},
        di \in {Normal(Fin(0), 1000), Uniform(TRUE, 0, 2000), Stable(0, 1000, 0, 0)}}

\* the encoder: every format, on values inside, at the edge of and beyond
\* the range of every integer type, and on NaN and the infinities
EncOpts ==
    {Opts(FALSE, None, bf, Some(1), FALSE, NoBound, NoBound, di) :
        bf \in BinaryFormat,
        di \in {Empirical(<<-5000, 1000000, 1500>>),
                Empirical(<<255999, 256000, -999>>),
                Empirical(<<-128999, -129000, 127999>>),
                Empirical(<<65535999, 65536000, -32768999>>),
                Empirical(<<-32769000, 32767999, 300000>>),
                Empirical(<<-70000000, 70000000, -1000>>),
                Normal(NegInf, 1000), Normal(PosInf, 1000), Stable(0, 1000, 0, 0)}}
    \cup
    {Opts(FALSE, None, bf, Some(1), TRUE, NoBound, NoBound,
          Empirical(<<1000000, -1000000, 1500>>)) : bf \in BinaryFormat}

\* the constructions: every distribution, with parameters on both sides of
\* each test
ParamOpts ==
    {Opts(FALSE, Some(0), "TEXT", Some(1), FALSE, NoBound, NoBound, di) :
        di \in {Stable(0, sc, al, be) :
                   sc \in {-1000, 0, 1000},
                   al \in {-1, 0, 500, 999, 1000, 1001, 2000, 2001},
                   be \in {-1001, -1000, 0, 1000, 1001}}
               \cup
               {Uniform(FALSE, 0, 2000), Uniform(FALSE, 1000, 1000), Uniform(FALSE, 2000, 0),
                Uniform(TRUE, 1000, 1000),
                Normal(Fin(0), 0), Normal(Fin(0), -1000), Normal(NaN, 1000),
                Cauchy(0, 1000), Cauchy(0, 0), Cauchy(0, -1000),
                Triangular(0, 1000, 2000), Triangular(0, 3000, 2000),
                StudentsT(0, 1000, 1000), StudentsT(0, 0, 1000), StudentsT(0, -1000, 1000),
                Categorical(<<1, 1, 2>>), Categorical(<<>>), Categorical(<<0, 0>>),
                Empirical(<<0>>)}}

\* the loop's command lines that differ in what decides whether it ends
LiveOpts == {o \in LoopOpts : o.binary_format = "TEXT" /\ ~o.cumulative}

\* main is entered with command line in `among`
Start(among) ==
    /\ opts \in among
    /\ pc = "start"
    /\ d = NoDist
    /\ r = NoRng
    /\ c = Fin(0)
    /\ counter = 0
    /\ so = 0
    /\ sink = "open"
    /\ hist = <<>>
    /\ writeFailed = FALSE
    /\ faults = {}
    /\ runNo = 1
    /\ prevHist = <<>>

Init == Start(LoopOpts \cup EncOpts \cup ParamOpts)
InitLive == Start(LiveOpts \cup ParamOpts)

\* one run of the program
Spec == Init /\ [][Next]_vars

\* the program run twice with the same command line
SpecRerun == Init /\ [][Next \/ Rerun]_vars

\* one run of a program that keeps running: main's steps are taken as long
\* as one is possible
SpecLive == InitLive /\ [][Next]_vars /\ WF_vars(Step)

(***************************************************************************)
(* Properties                                                              *)
(***************************************************************************)
Limit == opts.num_samples.v
BothBounds == opts.discard_below.some /\ opts.discard_above.some
AnyBound == opts.discard_below.some \/ opts.discard_above.some

\* C1: a run with -n N that ends without a write failure has emitted exactly
\* N values: the counter is the number of values emitted, so it advances by
\* one with each emitted value and not at all with a discarded sample; with
\* N = 0 nothing is emitted and the generator is never advanced.
C1_ExactlyNEmitted ==
    /\ [](counter = Len(hist))
    /\ [](pc = "done" => opts.num_samples.some /\ Len(hist) = Limit /\ counter = Limit)
    /\ [][/\ (Len(hist') = Len(hist) + 1) <=> (counter' = counter + 1)
          /\ (pc = "loop" /\ r' # r /\ hist' = hist /\ pc' = "loop") => counter' = counter
          /\ (pc = "loop" /\ opts.num_samples = Some(0)) => (r' = r /\ hist' = hist)]_vars

\* a run with -S 1 -n 2 and a discard bound has ended after more than two draws
C1_Witness ==
    /\ pc = "done" /\ opts.num_samples = Some(2) /\ opts.seed = Some(1) /\ AnyBound
    /\ Len(hist) = 2
    /\ opts.distribution.kind = "normal"
    /\ r # (1 + 2) % RngMod

\* x is neither below the lower bound nor above the upper one
InBounds(x) == ~FLt(x, opts.discard_below.v) /\ ~FGt(x, opts.discard_above.v)

\* C2 as stated: with both discard bounds set, every emitted value lies in
\* [L, H], whatever the other options are (cumulative mode among them).
C2_EmittedInBounds ==
    BothBounds => \A i \in 1..Len(hist) : InBounds(hist[i].c)

\* C2 as amended: with both discard bounds set, no sample that passes the
\* filters is below L or above H, and with cumulative mode off the same holds
\* of every value handed to the encoder.
C2_AcceptedInBounds ==
    BothBounds =>
        \A i \in 1..Len(hist) :
            /\ InBounds(hist[i].x)
            /\ ~opts.cumulative => InBounds(hist[i].c)

\* both bounds set, a finite value emitted after a discarded draw
C2_Witness ==
    /\ BothBounds /\ ~opts.cumulative /\ opts.seed = Some(1)
    /\ Len(hist) = 1 /\ hist[1].c.k = "fin"
    /\ opts.distribution.kind = "normal"
    /\ r # (1 + 1) % RngMod

RECURSIVE RunningSum(_)
RunningSum(k) == IF k = 0 THEN Fin(0) ELSE FAdd(RunningSum(k - 1), hist[k].x)

\* C3: in cumulative mode the k-th emitted value is the running sum of the
\* first k samples that passed the filters, each taken after exponentiation;
\* discarded samples add nothing.
C3_CumulativeIsRunningSum ==
    opts.cumulative =>
        \A k \in 1..Len(hist) :
            /\ hist[k].c = RunningSum(k)
            /\ hist[k].x = (IF opts.exponentiate THEN FExp(hist[k].raw) ELSE hist[k].raw)
            /\ ~(opts.discard_below.some /\ FLt(hist[k].x, opts.discard_below.v))
            /\ ~(opts.discard_above.some /\ FGt(hist[k].x, opts.discard_above.v))

\* cumulative, exponentiated and filtered: three values, the sum has grown
C3_Witness ==
    /\ opts.cumulative /\ opts.exponentiate /\ AnyBound
    /\ Len(hist) = 3
    /\ hist[1].x.k = "fin" /\ hist[1].x.v > 0
    /\ hist[3].c # hist[3].x
    /\ hist[3].c = FAdd(FAdd(hist[1].x, hist[2].x), hist[3].x)

\* C4: with cumulative mode off the accumulator is zero at the start of every
\* loop iteration, and each emitted value is the sample of its own iteration.
C4_NonCumulativeEmitsSample ==
    ~opts.cumulative =>
        /\ pc = "loop" => c = Fin(0)
        /\ \A k \in 1..Len(hist) : hist[k].c = hist[k].x

\* not cumulative: two non-zero values emitted, the loop about to iterate again
C4_Witness ==
    /\ ~opts.cumulative /\ pc = "loop" /\ AnyBound
    /\ Len(hist) = 2
    /\ hist[1].x.k = "fin" /\ hist[1].x.v # 0
    /\ hist[2].x.k = "fin" /\ hist[2].x.v # 0

\* byte i (0 the least significant) of the two's complement of n, |n| < 2^31
ByteOf(n, i) ==
    CASE i = 0 -> n % 256
      [] i = 1 -> (n \div 256) % 256
      [] i = 2 -> (n \div 65536) % 256
      [] i = 3 -> (n \div 16777216) % 256
      [] OTHER -> IF n < 0 THEN 255 ELSE 0

\* x is above the maximum, below the minimum of the format's type.  Every
\* finite value of the model is within the range of the signed types of 32
\* and 64 bits and below the maximum of the unsigned ones.
AboveMax(x, fmt) ==
    \/ x.k = "pinf"
    \/ /\ x.k = "fin"
       /\ \/ fmt = "U8" /\ x.v > 255000
          \/ fmt = "S8" /\ x.v > 127000
          \/ fmt \in {"U16BE", "U16LE"} /\ x.v > 65535000
          \/ fmt \in {"S16BE", "S16LE"} /\ x.v > 32767000
BelowMin(x, fmt) ==
    \/ x.k = "ninf"
    \/ /\ x.k = "fin"
       /\ \/ ~Signed(fmt) /\ x.v < 0
          \/ fmt = "S8" /\ x.v < -128000
          \/ fmt \in {"S16BE", "S16LE"} /\ x.v < -32768000

\* the bytes the claim expects, most significant first
ExpectedBytesBE(x, fmt) ==
    [i \in 1..Width(fmt) |->
        IF x.k = "nan" THEN 0
        ELSE IF AboveMax(x, fmt) THEN (IF Signed(fmt) /\ i = 1 THEN 127 ELSE 255)
        ELSE IF BelowMin(x, fmt) THEN (IF Signed(fmt) /\ i = 1 THEN 128 ELSE 0)
        ELSE ByteOf(Trunc(x.v), Width(fmt) - i)]

\* C5: for each of the 14 integer formats the bytes written are those of the
\* type's maximum for a value above it, of its minimum for a value below
\* it, and of the value's integer part otherwise; never the value modulo
\* 2^width.
C5_IntegerCastSaturates ==
    \A k \in 1..Len(hist) :
        hist[k].enc.fmt \in IntFormats =>
            /\ Len(hist[k].enc.bytes) = Width(hist[k].enc.fmt)
            /\ (IF BigEndian(hist[k].enc.fmt) THEN hist[k].enc.bytes
                ELSE Reverse(hist[k].enc.bytes))
               = ExpectedBytesBE(hist[k].c, hist[k].enc.fmt)

\* 1000.0 written as u8 is 255
C5_Witness ==
    /\ opts.binary_format = "U8"
    /\ Len(hist) = 1
    /\ hist[1].c = Fin(1000000)
    /\ hist[1].enc.bytes = <<255>>

\* the configuration errors the claim lists
ConfigError(p) ==
    \/ p.kind = "uniform" /\ ~p.right_inclusive /\ p.max <= p.min
    \/ p.kind = "stable" /\ (p.alpha < 0 \/ p.alpha > 2000)
    \/ p.kind = "stable" /\ (p.beta < -1000 \/ p.beta > 1000)
    \/ p.kind = "normal" /\ p.std_dev <= 0
    \/ p.kind \in {"cauchy", "studentt", "stable"} /\ p.scale <= 0

\* C6: a configuration error ends the run in failure at construction: the
\* generator is never created, no sample drawn, nothing written.
C6_ConfigErrorFailsAtConstruction ==
    ConfigError(opts.distribution) =>
        /\ pc \in {"start", "failed"}
        /\ d = NoDist /\ r = NoRng /\ hist = <<>> /\ so = 0

\* C7: whenever a write to standard output fails, in the loop or when the
\* buffer is written out at exit, the run ends in failure.
C7_WriteFailureFailsRun ==
    writeFailed => pc = "failed"

\* C8: two runs with the same seed, parameters, options and sample count
\* write the same values: of the second run's output and the first's, one
\* is a prefix of the other (a run may be cut short by a failed write), and
\* they are equal when both runs ended without one.
C8_SameSeedSameOutput ==
    (runNo = 2 /\ opts.seed.some) =>
        /\ \A i \in 1..Len(hist) : i <= Len(prevHist) => hist[i] = prevHist[i]
        /\ (pc = "done" /\ ~writeFailed /\ Len(prevHist) = Limit) => hist = prevHist

\* a seeded run with a discard bound, repeated: three values, twice
C8_Witness ==
    /\ runNo = 2 /\ opts.seed.some /\ AnyBound /\ pc = "done"
    /\ Len(hist) = 3 /\ hist = prevHist
    /\ hist[1].x # hist[2].x

\* the next draw would pass the filters and be written
AcceptNext == pc = "loop" /\ ~LimitReached(opts, counter) /\ ~Discarded(opts, X)

\* the discard bounds reject every sample the distribution can give
RejectsAll ==
    /\ Valid(opts.distribution)
    /\ \A s \in RngStates :
           Discarded(opts, Exponentiated(opts, Sample(New(opts.distribution), s).x))

\* C9: a run with -n N, N >= 1: if a sample that passes the filters keeps
\* being drawn the run ends, and it ends normally only with N values
\* emitted; if the bounds reject every sample the loop draws again and
\* again for ever, emits nothing and leaves the counter at 0.
C9_TerminatesIffAccepted ==
    /\ (opts.num_samples.some /\ Limit >= 1 /\ []<>AcceptNext) => <>(pc \in {"done", "failed"})
    /\ [](opts.num_samples.some /\ Limit >= 1 /\ pc = "done" => Len(hist) = Limit)
    /\ [](opts.num_samples.some /\ Limit >= 1 /\ RejectsAll =>
              pc \in {"start", "loop"} /\ counter = 0 /\ hist = <<>>)
    /\ (opts.num_samples.some /\ Limit >= 1 /\ RejectsAll) => []<><<Discard>>_vars

\* every sample is rejected: the loop has drawn twice and emitted nothing
C9_Witness ==
    /\ opts.num_samples.some /\ Limit >= 1 /\ RejectsAll /\ opts.seed = Some(1)
    /\ pc = "loop" /\ r = (1 + 2) % RngMod /\ counter = 0 /\ hist = <<>>

\* C10: for Stable parameters that pass the validation, neither the
\* precomputation nor a sample divides by zero or takes the logarithm of a
\* non-positive number.
C10_StableNoNumericFault ==
    (opts.distribution.kind = "stable" /\ Valid(opts.distribution)) => faults = {}

====
